---------------------------- MODULE Spec2Model ----------------------------
(***************************************************************************)
(* FulfillME marketplace backend (src/backend/server.js): the User, Need   *)
(* and Transaction collections and the request handlers that read and      *)
(* write them.  A handler is a sequence of steps, one per `await`; between *)
(* two steps of one request any step of another request may run.           *)
(***************************************************************************)
EXTENDS Integers, Sequences, FiniteSets, Bags, TLC

(***************************************************************************)
(* Bounds of the model.                                                    *)
(***************************************************************************)
\* Requests started in one behaviour.
MaxRequests == 3

\* Requests started in one behaviour of the concurrent specification.
MaxRacing == 2

\* Requests that can be in flight at the same time.
Slots == {1, 2}

\* Document identifiers (_id) of the User and the Need collection.
UserIds == {1, 2, 3}

NeedIds == {1, 2}

\* Entries put on the offline queue in one behaviour.
MaxEntries == 2

\* Client-generated identifiers of queued entries.
EntryIds == {1, 2, 3}

\* Sync passes that can be in flight at the same time.
Passes == {1, 2}

(***************************************************************************)
(* JavaScript values.  A number x is held as the integer 100 * x (two      *)
(* decimals fixed point), so that amount / 100 is exact for the amounts    *)
(* drawn below.                                                            *)
(***************************************************************************)
Fx(n) == n * 100

Num(x) == [t |-> "number", v |-> x]

Null == [t |-> "null", v |-> 0]

Undefined == [t |-> "undefined", v |-> 0]

NaN == [t |-> "NaN", v |-> 0]

\* ToNumber of the ECMAScript standard, on the values above.
ToNumber(x) ==
    CASE x.t = "number" -> x
      [] x.t = "null" -> Num(0)
      [] OTHER -> NaN

\* a / b
JSDiv(a, b) ==
    LET x == ToNumber(a)
        y == ToNumber(b)
    IN  IF x.t = "NaN" \/ y.t = "NaN" \/ y.v = 0 THEN NaN
        ELSE Num((x.v * Fx(1)) \div y.v)

\* a + b
JSAdd(a, b) ==
    LET x == ToNumber(a)
        y == ToNumber(b)
    IN  IF x.t = "NaN" \/ y.t = "NaN" THEN NaN ELSE Num(x.v + y.v)

\* a - b
JSSub(a, b) ==
    LET x == ToNumber(a)
        y == ToNumber(b)
    IN  IF x.t = "NaN" \/ y.t = "NaN" THEN NaN ELSE Num(x.v - y.v)

\* a < b (false when either side is NaN)
JSLess(a, b) ==
    LET x == ToNumber(a)
        y == ToNumber(b)
    IN  x.t # "NaN" /\ y.t # "NaN" /\ x.v < y.v

\* A string is a sequence of characters.
Str(s) == [t |-> "string", s |-> s]

NoString == [t |-> "undefined", s |-> <<>>]

NotAString == [t |-> "number", s |-> <<>>]

\* String.prototype.startsWith
StartsWith(s, prefix) ==
    /\ Len(s) >= Len(prefix)
    /\ SubSeq(s, 1, Len(prefix)) = prefix


(***************************************************************************)
(* State: the three collections (a collection maps _id to document; the    *)
(* Transaction collection is kept as a bag of documents), the requests in  *)
(* flight, and two history variables: the number of requests started and   *)
(* the (need, fulfiller) pairs whose unlock was answered 200.              *)
(***************************************************************************)
VARIABLES users, needs, transactions, req, nreq, okUnlocks

\* The service worker: the object store 'needs' of the database
\* 'fulfillme-offline' (key -> entry), the sync passes in flight, and one
\* history variable: the keys in the order in which they were put.
VARIABLES offline, inserted, passes

vars ==
    <<users, needs, transactions, req, nreq, okUnlocks, offline, inserted,
      passes>>

server == <<users, needs, transactions, req, nreq, okUnlocks>>

client == <<offline, inserted, passes>>

\* Transaction.need of a document saved without a need.
NoNeedRef == 0

\* What a handler's local variable holds before its findById.
NoUserDoc ==
    [role |-> "", email |-> "", phone |-> "", fullName |-> "",
     location |-> "", gender |-> "", rating |-> Null, credits |-> Undefined]

NoNeedDoc ==
    [user |-> 0, title |-> "", description |-> "", budget |-> Undefined,
     category |-> "", location |-> <<>>, timeframe |-> "", status |-> "",
     createdAt |-> 0, unlockedBy |-> <<>>, offers |-> <<>>,
     selectedFulfiller |-> Undefined]

NoContactInfo ==
    [fullName |-> "", phone |-> "", email |-> "", location |-> "",
     rating |-> Null]

NoBody == [role |-> "", email |-> "", phone |-> ""]

\* req.body of a post-need request and req.query of a list request, absent.
NoNeedBody ==
    [title |-> "", description |-> "", budget |-> Undefined, category |-> "",
     location |-> <<>>, timeframe |-> ""]

NoQuery ==
    [category |-> "", location |-> <<>>, minBudget |-> Undefined,
     maxBudget |-> Undefined, sort |-> "", page |-> 0, limit |-> 0,
     offset |-> 0]

NoPre ==
    [users |-> <<>>, needs |-> <<>>, transactions |-> EmptyBag,
     okUnlocks |-> {}]

\* The collections as a request finds them when it arrives.
Snapshot ==
    [users |-> users, needs |-> needs, transactions |-> transactions,
     okUnlocks |-> okUnlocks]

IdleReq ==
    [pc |-> "idle", kind |-> "none", userId |-> 0, needId |-> 0,
     amount |-> Undefined, mpesaCode |-> NoString, body |-> NoBody,
     needBody |-> NoNeedBody, query |-> NoQuery,
     user |-> NoUserDoc, need |-> NoNeedDoc,
     status |-> 0, error |-> "", contactInfo |-> NoContactInfo,
     credits |-> Undefined, list |-> <<>>, total |-> 0, pre |-> NoPre]

\* res.status(s).json({ error: e })
Respond(r, s, e) ==
    [req EXCEPT ![r].pc = "done", ![r].status = s, ![r].error = e,
                ![r].user = NoUserDoc, ![r].need = NoNeedDoc]

AllIdle == \A r \in Slots : req[r].pc = "idle"

\* A request takes the first free slot.
CanStart(r) ==
    /\ req[r].pc = "idle"
    /\ \A q \in Slots : q < r => req[q].pc # "idle"
    /\ nreq < MaxRequests

(***************************************************************************)
(* What the document store does on save (mongoose): a changed scalar path  *)
(* is written with $set, last write wins; Array.push on a stored array is  *)
(* written with $push, which appends to the array as stored; a save of a   *)
(* document that is no longer stored fails.                                *)
(***************************************************************************)
SetCredits_Everyone(id, c) ==
    [u \in DOMAIN users |-> [users[u] EXCEPT !.credits = c]]

\* user.save() of a document whose credits were assigned
SetCredits(id, c) == [users EXCEPT ![id].credits = c]

PushUnlockedBy_Replace(n, id) == [needs EXCEPT ![n].unlockedBy = <<id>>]

\* need.save() of a document onto whose unlockedBy `id` was pushed
PushUnlockedBy(n, id) ==
    [needs EXCEPT ![n].unlockedBy = Append(needs[n].unlockedBy, id)]

\* transaction.save() of a new document
InsertTransaction(tx) == transactions (+) SetToBag({tx})

\* transactionSchema: amount is required and has min 0
ValidTransaction(tx) ==
    /\ tx.amount.t = "number"
    /\ tx.amount.v >= 0

\* userSchema.credits is a Number: a save casts it, and NaN does not cast
ValidCredits(c) == c.t \in {"number", "null"}

(***************************************************************************)
(* POST /api/needs/:id/unlock                                              *)
(***************************************************************************)
\* Mutant: includes compares each stored ObjectId with the token's string by
\* identity, and so finds none.
AlreadyUnlocked_ByIdentity(need, userId) == FALSE

\* need.unlockedBy.includes(req.user.userId)
AlreadyUnlocked(need, userId) ==
    \E i \in 1..Len(need.unlockedBy) : need.unlockedBy[i] = userId

\* Mutant: the balance is only refused when it is negative.
InsufficientCredits_BelowZero(user) == JSLess(user.credits, Num(0))

\* user.credits < 1
InsufficientCredits(user) == JSLess(user.credits, Num(Fx(1)))

\* Mutant: the price in shillings is taken from the balance.
DeductCredit_Price(c) == JSSub(c, Num(Fx(100)))

\* user.credits -= 1
DeductCredit(c) == JSSub(c, Num(Fx(1)))

\* new Transaction({ user, need, amount: 100, type: 'unlock', ... })
UnlockTransaction(userId, needId) ==
    [user |-> userId, need |-> needId, amount |-> Num(Fx(100)),
     mpesaCode |-> NoString, type |-> "unlock", status |-> "completed"]

\* The contactInfo object of the response, built from the asker's document.
ContactInfoOf(asker) ==
    [fullName |-> asker.fullName, phone |-> asker.phone,
     email |-> asker.email, location |-> asker.location,
     rating |-> asker.rating]

\* The request arrives with the token of user u, for the need id n.
UnlockStart(r, u, n, pre) ==
    /\ CanStart(r)
    /\ u \in DOMAIN users
    /\ req' = [req EXCEPT ![r] = [IdleReq EXCEPT !.pc = "findNeed",
                   !.kind = "unlock", !.userId = u, !.needId = n,
                   !.pre = pre]]
    /\ nreq' = nreq + 1
    /\ UNCHANGED <<users, needs, transactions, okUnlocks, client>>

\* const need = await Need.findById(req.params.id)
UnlockFindNeed(r) ==
    /\ req[r].kind = "unlock" /\ req[r].pc = "findNeed"
    /\ IF req[r].needId \notin DOMAIN needs
       THEN req' = Respond(r, 404, "Need not found")
       ELSE req' = [req EXCEPT ![r].pc = "findUser",
                                ![r].need = needs[req[r].needId]]
    /\ UNCHANGED <<users, needs, transactions, nreq, okUnlocks, client>>

\* const user = await User.findById(req.user.userId), the three checks, and
\* the changes to the two local documents
UnlockFindUser(r) ==
    /\ req[r].kind = "unlock" /\ req[r].pc = "findUser"
    /\ LET user == users[req[r].userId]
           need == req[r].need
       IN  req' =
             IF user.role # "fulfiller"
             THEN Respond(r, 403, "Only fulfillers can unlock needs")
             ELSE IF AlreadyUnlocked(need, req[r].userId)
             THEN Respond(r, 400, "Already unlocked this need")
             ELSE IF InsufficientCredits(user)
             THEN Respond(r, 400, "Insufficient credits. Please add credits first.")
             ELSE [req EXCEPT
                     ![r].pc = "saveUser",
                     ![r].user = [user EXCEPT
                                    !.credits = DeductCredit(user.credits)],
                     ![r].need = [need EXCEPT
                                    !.unlockedBy =
                                        Append(need.unlockedBy, req[r].userId)]]
    /\ UNCHANGED <<users, needs, transactions, nreq, okUnlocks, client>>

\* await user.save()
UnlockSaveUser(r) ==
    /\ req[r].kind = "unlock" /\ req[r].pc = "saveUser"
    /\ \/ /\ ValidCredits(req[r].user.credits)
          /\ users' = SetCredits(req[r].userId, req[r].user.credits)
          /\ req' = [req EXCEPT ![r].pc = "saveNeed"]
       \/ /\ req' = Respond(r, 500, "Failed to unlock need")
          /\ UNCHANGED users
    /\ UNCHANGED <<needs, transactions, nreq, okUnlocks, client>>

\* await need.save()
UnlockSaveNeed(r) ==
    /\ req[r].kind = "unlock" /\ req[r].pc = "saveNeed"
    /\ \/ /\ req[r].needId \in DOMAIN needs
          /\ needs' = PushUnlockedBy(req[r].needId, req[r].userId)
          /\ req' = [req EXCEPT ![r].pc = "saveTransaction"]
       \/ /\ req' = Respond(r, 500, "Failed to unlock need")
          /\ UNCHANGED needs
    /\ UNCHANGED <<users, transactions, nreq, okUnlocks, client>>

\* await transaction.save()
UnlockSaveTransaction(r) ==
    /\ req[r].kind = "unlock" /\ req[r].pc = "saveTransaction"
    /\ LET tx == UnlockTransaction(req[r].userId, req[r].needId)
       IN  \/ /\ ValidTransaction(tx)
              /\ transactions' = InsertTransaction(tx)
              /\ req' = [req EXCEPT ![r].pc = "findAsker"]
           \/ /\ req' = Respond(r, 500, "Failed to unlock need")
              /\ UNCHANGED transactions
    /\ UNCHANGED <<users, needs, nreq, okUnlocks, client>>

\* const asker = await User.findById(need.user).select(...), res.json(...)
UnlockFindAsker(r) ==
    /\ req[r].kind = "unlock" /\ req[r].pc = "findAsker"
    /\ req' = [req EXCEPT ![r].pc = "done", ![r].status = 200,
                  ![r].contactInfo = ContactInfoOf(users[req[r].need.user]),
                  ![r].user = NoUserDoc, ![r].need = NoNeedDoc]
    /\ okUnlocks' = okUnlocks \cup {<<req[r].needId, req[r].userId>>}
    /\ UNCHANGED <<users, needs, transactions, nreq, client>>

(***************************************************************************)
(* POST /api/credits/add                                                   *)
(***************************************************************************)
\* The issuer prefix of a payment code.
MpesaPrefix == <<"M", "P", "S">>

\* !mpesaCode: undefined and the empty string are falsy
Falsy(code) == code.t = "undefined" \/ (code.t = "string" /\ code.s = <<>>)

\* Mutant: the prefix is not checked.
InvalidMpesaCode_AnyPrefix(code) == Falsy(code)

\* !mpesaCode || !mpesaCode.startsWith('MPS'), for a code that is a string
\* or missing
InvalidMpesaCode(code) == Falsy(code) \/ ~StartsWith(code.s, MpesaPrefix)

\* Mutant: the amount is not divided by the unit price.
CreditsFor_Undivided(amount) == amount

\* const credits = amount / 100
CreditsFor(amount) == JSDiv(amount, Num(Fx(100)))

\* new Transaction({ user, amount, mpesaCode, type: 'credit_purchase', ... })
PurchaseTransaction(userId, amount, code) ==
    [user |-> userId, need |-> NoNeedRef, amount |-> amount,
     mpesaCode |-> code, type |-> "credit_purchase", status |-> "completed"]

\* The amounts and payment codes a request body can carry.
Amounts == {Undefined, Num(Fx(0 - 100)), Num(Fx(50)), Num(Fx(100))}

MpesaCodes ==
    {NoString, NotAString, Str(<<>>), Str(<<"M", "P">>),
     Str(<<"X", "M", "P", "S">>), Str(<<"M", "P", "S", "7">>)}

\* The request arrives with the token of user u and the body { amount, mpesaCode }.
AddCreditsStart(r, u, amount, code, pre) ==
    /\ CanStart(r)
    /\ u \in DOMAIN users
    /\ req' = [req EXCEPT ![r] = [IdleReq EXCEPT !.pc = "findUser",
                   !.kind = "addCredits", !.userId = u, !.amount = amount,
                   !.mpesaCode = code, !.pre = pre]]
    /\ nreq' = nreq + 1
    /\ UNCHANGED <<users, needs, transactions, okUnlocks, client>>

\* const user = await User.findById(req.user.userId), the check of the code
\* (startsWith of a value that is no string throws), user.credits += credits
AddCreditsFindUser(r) ==
    /\ req[r].kind = "addCredits" /\ req[r].pc = "findUser"
    /\ LET user == users[req[r].userId]
           code == req[r].mpesaCode
       IN  req' =
             IF ~Falsy(code) /\ code.t # "string"
             THEN Respond(r, 500, "Failed to add credits")
             ELSE IF InvalidMpesaCode(code)
             THEN Respond(r, 400, "Invalid M-Pesa code")
             ELSE [req EXCEPT
                     ![r].pc = "saveUser",
                     ![r].user = [user EXCEPT !.credits =
                         JSAdd(user.credits, CreditsFor(req[r].amount))]]
    /\ UNCHANGED <<users, needs, transactions, nreq, okUnlocks, client>>

\* await user.save()
AddCreditsSaveUser(r) ==
    /\ req[r].kind = "addCredits" /\ req[r].pc = "saveUser"
    /\ \/ /\ ValidCredits(req[r].user.credits)
          /\ users' = SetCredits(req[r].userId, req[r].user.credits)
          /\ req' = [req EXCEPT ![r].pc = "saveTransaction"]
       \/ /\ req' = Respond(r, 500, "Failed to add credits")
          /\ UNCHANGED users
    /\ UNCHANGED <<needs, transactions, nreq, okUnlocks, client>>

\* await transaction.save(), res.json({ ..., credits: user.credits })
AddCreditsSaveTransaction(r) ==
    /\ req[r].kind = "addCredits" /\ req[r].pc = "saveTransaction"
    /\ LET tx == PurchaseTransaction(req[r].userId, req[r].amount,
                                     req[r].mpesaCode)
       IN  \/ /\ ValidTransaction(tx)
              /\ transactions' = InsertTransaction(tx)
              /\ req' = [req EXCEPT ![r].pc = "done", ![r].status = 200,
                            ![r].credits = req[r].user.credits,
                            ![r].user = NoUserDoc]
           \/ /\ req' = Respond(r, 500, "Failed to add credits")
              /\ UNCHANGED transactions
    /\ UNCHANGED <<users, needs, nreq, okUnlocks, client>>

(***************************************************************************)
(* POST /api/auth/register                                                 *)
(***************************************************************************)
\* body('role').isIn(['asker', 'fulfiller'])
ValidRole(role) == role \in {"asker", "fulfiller"}

\* User.findOne({ $or: [{ email }, { phone }] })
ExistingUser(email, phone) ==
    \E id \in DOMAIN users :
        users[id].email = email \/ users[id].phone = phone

\* The unique indexes of the User schema on email and on phone.
UniqueIndexViolated(email, phone) ==
    \E id \in DOMAIN users :
        users[id].email = email \/ users[id].phone = phone

\* normalizeEmail(): the address in lower case
NormalizeEmail(e) == IF e = "E3" THEN "e3" ELSE e

\* credits: role === 'fulfiller' ? 0 : null
InitialCredits(role) == IF role = "fulfiller" THEN Num(0) ELSE Null

\* new User({ email, phone, ..., role, credits, rating: 5.0 })
NewUser(body) ==
    [role |-> body.role, email |-> body.email, phone |-> body.phone,
     fullName |-> "name", location |-> "town", gender |-> "other",
     rating |-> Num(Fx(5)),
     credits |-> InitialCredits(body.role)]

\* The _id the store gives the next inserted user.
FreshUserId == CHOOSE id \in UserIds \ DOMAIN users : TRUE

Roles == {"asker", "fulfiller", "admin"}

Emails == {"e1", "e3"}

Phones == {"p1", "p3"}

\* The request arrives; express-validator rejects a role that is neither.
RegisterStart(r, body, pre) ==
    /\ CanStart(r)
    /\ Cardinality(DOMAIN users)
         + Cardinality({q \in Slots : req[q].kind = "register"})
         < Cardinality(UserIds)
    /\ LET new == [IdleReq EXCEPT
                      !.kind = "register",
                      !.body = [body EXCEPT !.email = NormalizeEmail(@)],
                      !.pre = pre]
       IN  req' = [req EXCEPT ![r] =
                     IF ValidRole(body.role)
                     THEN [new EXCEPT !.pc = "findOne"]
                     ELSE [new EXCEPT !.pc = "done", !.status = 400,
                                      !.error = "validation"]]
    /\ nreq' = nreq + 1
    /\ UNCHANGED <<users, needs, transactions, okUnlocks, client>>

\* const existingUser = await User.findOne(...)
RegisterFindOne(r) ==
    /\ req[r].kind = "register" /\ req[r].pc = "findOne"
    /\ req' = IF ExistingUser(req[r].body.email, req[r].body.phone)
              THEN Respond(r, 400, "User already exists")
              ELSE [req EXCEPT ![r].pc = "saveUser"]
    /\ UNCHANGED <<users, needs, transactions, nreq, okUnlocks, client>>

\* await user.save(): the unique indexes on email and phone reject a
\* duplicate, and the handler answers 500
RegisterSave(r) ==
    /\ req[r].kind = "register" /\ req[r].pc = "saveUser"
    /\ IF UniqueIndexViolated(req[r].body.email, req[r].body.phone)
       THEN /\ req' = Respond(r, 500, "Registration failed")
            /\ UNCHANGED users
       ELSE /\ users' = users @@ (FreshUserId :> NewUser(req[r].body))
            /\ req' = [req EXCEPT ![r].pc = "done", ![r].status = 201,
                          ![r].userId = FreshUserId,
                          ![r].credits = InitialCredits(req[r].body.role)]
    /\ UNCHANGED <<needs, transactions, nreq, okUnlocks, client>>

(***************************************************************************)
(* POST /api/needs                                                         *)
(***************************************************************************)
\* notEmpty() on a string field of the body
NotEmpty(s) == s # ""

\* isNumeric() on the budget: any signed decimal numeral passes
IsNumeric(x) == x.t = "number"

\* The validation chain of the route: title, description, budget, category,
\* location.
PostNeedBodyValid(body) ==
    /\ NotEmpty(body.title)
    /\ NotEmpty(body.description)
    /\ IsNumeric(body.budget)
    /\ NotEmpty(body.category)
    /\ body.location # <<>>

IsAsker_AnyRole(user) == TRUE

\* user.role !== 'asker' is the refusal
IsAsker(user) == user.role = "asker"

\* The enumerations and the floor of the Need schema.
NeedCategories ==
    {"services", "products", "rentals", "pets", "transport", "other"}

NeedTimeframes == {"asap", "today", "tomorrow", "week", "month", "flexible"}

NeedStatuses == {"active", "fulfilled", "expired", "cancelled"}

MinBudget == 0

\* new Need({ user, title, ..., status: 'active', createdAt: new Date() });
\* an absent timeframe takes the schema's default.
NewNeed(userId, body, now) ==
    [user |-> userId, title |-> body.title, description |-> body.description,
     budget |-> body.budget, category |-> body.category,
     location |-> body.location,
     timeframe |-> IF body.timeframe = "" THEN "flexible" ELSE body.timeframe,
     status |-> "active", createdAt |-> now, unlockedBy |-> <<>>,
     offers |-> <<>>, selectedFulfiller |-> Undefined]

\* The schema validation that need.save() runs before it writes.
ValidNeed(doc) ==
    /\ doc.title # "" /\ doc.description # "" /\ doc.location # <<>>
    /\ doc.budget.t = "number" /\ doc.budget.v >= MinBudget
    /\ doc.category \in NeedCategories
    /\ doc.timeframe \in NeedTimeframes
    /\ doc.status \in NeedStatuses

\* The _id the store gives the next inserted need.
FreshNeedId == CHOOSE id \in NeedIds \ DOMAIN needs : TRUE

Titles == {"", "roof"}

Budgets == {Undefined, Num(Fx(0 - 5)), Num(Fx(500))}

Categories == {"", "services", "weapons"}

Locations == {<<>>, <<"K", "i">>}

Timeframes == {"", "asap", "someday"}

NeedBodies ==
    [title : Titles, description : {"fix"}, budget : Budgets,
     category : Categories, location : Locations, timeframe : Timeframes]

\* The request arrives with the caller's token; the validation chain
\* answers 400 before the handler looks at the caller.
PostNeedStart(r, u, body, pre) ==
    /\ CanStart(r)
    /\ Cardinality(DOMAIN needs) < Cardinality(NeedIds)
    /\ LET new == [IdleReq EXCEPT !.kind = "postNeed", !.userId = u,
                                  !.needBody = body, !.pre = pre]
       IN  req' = [req EXCEPT ![r] =
                     IF PostNeedBodyValid(body)
                     THEN [new EXCEPT !.pc = "findPoster"]
                     ELSE [new EXCEPT !.pc = "done", !.status = 400,
                                      !.error = "validation"]]
    /\ nreq' = nreq + 1
    /\ UNCHANGED <<users, needs, transactions, okUnlocks, client>>

\* const user = await User.findById(req.user.userId); reading the role of a
\* user that is gone throws, and the catch answers 500
PostNeedFindUser(r) ==
    /\ req[r].kind = "postNeed" /\ req[r].pc = "findPoster"
    /\ req' = IF req[r].userId \notin DOMAIN users
              THEN Respond(r, 500, "Failed to post need")
              ELSE IF ~IsAsker(users[req[r].userId])
              THEN Respond(r, 403, "Only askers can post needs")
              ELSE [req EXCEPT ![r].pc = "saveNeed"]
    /\ UNCHANGED <<users, needs, transactions, nreq, okUnlocks, client>>

\* await need.save(): a document the schema rejects is not written and the
\* catch answers 500
PostNeedSave(r) ==
    /\ req[r].kind = "postNeed" /\ req[r].pc = "saveNeed"
    /\ LET doc == NewNeed(req[r].userId, req[r].needBody, nreq)
       IN  IF ValidNeed(doc)
           THEN /\ needs' = needs @@ (FreshNeedId :> doc)
                /\ req' = [req EXCEPT ![r].pc = "done", ![r].status = 201,
                              ![r].needId = FreshNeedId, ![r].need = doc]
           ELSE /\ req' = Respond(r, 500, "Failed to post need")
                /\ UNCHANGED needs
    /\ UNCHANGED <<users, transactions, nreq, okUnlocks, client>>

(***************************************************************************)
(* GET /api/needs, in the document backend and in the relational one       *)
(***************************************************************************)
Min(a, b) == IF a < b THEN a ELSE b

\* The 'i' option of the regular expression
Lower(c) ==
    CASE c = "N" -> "n"
      [] c = "K" -> "k"
      [] OTHER -> c

\* { $regex: pattern, $options: 'i' } for a pattern of plain letters: the
\* pattern occurs somewhere in the string, letter case aside.
RegexMatch(s, pattern) ==
    \E i \in 1..(Len(s) - Len(pattern) + 1) :
        \A j \in 1..Len(pattern) : Lower(s[i + j - 1]) = Lower(pattern[j])

\* A query parameter that is present is a non-empty string, hence truthy.
Given(x) == x.t = "number"

\* let query = { status: 'active' } and the filters added to it
MatchesQuery(need, q) ==
    /\ need.status = "active"
    /\ q.category # "" => need.category = q.category
    /\ q.location # <<>> => RegexMatch(need.location, q.location)
    /\ Given(q.minBudget) => need.budget.v >= q.minBudget.v
    /\ Given(q.maxBudget) => need.budget.v <= q.maxBudget.v

Matching(q) == {n \in DOMAIN needs : MatchesQuery(needs[n], q)}

\* Where a timeframe stands in the ascending order of strings.
TimeframeRank(t) ==
    CASE t = "asap" -> 1
      [] t = "flexible" -> 2
      [] t = "month" -> 3
      [] t = "today" -> 4
      [] t = "tomorrow" -> 5
      [] OTHER -> 6

\* Need a comes strictly before need b under the sort option.
SortsBefore(a, b, sort) ==
    CASE sort = "budget_high" -> a.budget.v > b.budget.v
      [] sort = "budget_low" -> a.budget.v < b.budget.v
      [] sort = "urgent" ->
            \/ TimeframeRank(a.timeframe) < TimeframeRank(b.timeframe)
            \/ /\ a.timeframe = b.timeframe
               /\ a.createdAt > b.createdAt
      [] OTHER -> a.createdAt > b.createdAt

\* The orders in which the store may return the ids: equal keys come in any
\* order.
Sorted(ids, sort) ==
    {s \in [1..Cardinality(ids) -> ids] :
        /\ \A i, j \in DOMAIN s : i # j => s[i] # s[j]
        /\ \A i, j \in DOMAIN s :
              i < j => ~SortsBefore(needs[s[j]], needs[s[i]], sort)}

\* .skip(skip).limit(limit)
Page(s, skip, limit) == SubSeq(s, skip + 1, Min(skip + limit, Len(s)))

ListPopulate_Everything ==
    {"fullName", "location", "rating", "phone", "email"}

\* The fields named by .populate('user', 'fullName location rating')
ListPopulate == {"fullName", "location", "rating"}

\* The populated user: its _id and the selected fields, or null when the
\* user is gone.
PopulateUser(id, fields) ==
    IF id \in DOMAIN users
    THEN [f \in fields \cup {"_id"} |->
            IF f = "_id" THEN id ELSE users[id][f]]
    ELSE Null

\* One element of the response's needs array.
ListedNeed(n) ==
    [f \in DOMAIN needs[n] \cup {"_id"} |->
        CASE f = "_id" -> n
          [] f = "user" -> PopulateUser(needs[n].user, ListPopulate)
          [] OTHER -> needs[n][f]]

Queries ==
    [category : {"", "services"},
     location : {<<>>, <<"a", "i">>, <<"k">>},
     minBudget : {Undefined, Num(Fx(600))},
     maxBudget : {Undefined, Num(Fx(600))},
     sort : {"newest", "budget_high", "budget_low", "urgent"},
     page : {1, 2}, limit : {1, 10}, offset : {0}]

\* The request arrives; it needs no token.
ListNeedsStart(r, q, pre) ==
    /\ CanStart(r)
    /\ req' = [req EXCEPT ![r] =
                 [IdleReq EXCEPT !.kind = "listNeeds", !.pc = "find",
                                 !.query = q, !.pre = pre]]
    /\ nreq' = nreq + 1
    /\ UNCHANGED <<users, needs, transactions, okUnlocks, client>>

\* const needs = await Need.find(query).populate(...).sort(...).skip(...)
\*     .limit(...)
ListNeedsFind(r) ==
    /\ req[r].kind = "listNeeds" /\ req[r].pc = "find"
    /\ LET q == req[r].query
       IN  \E s \in Sorted(Matching(q), q.sort) :
              LET page == Page(s, (q.page - 1) * q.limit, q.limit)
              IN  req' = [req EXCEPT ![r].pc = "count",
                             ![r].list =
                                 [i \in DOMAIN page |-> ListedNeed(page[i])]]
    /\ UNCHANGED <<users, needs, transactions, nreq, okUnlocks, client>>

\* const total = await Need.countDocuments(query); res.json(...)
ListNeedsCount(r) ==
    /\ req[r].kind = "listNeeds" /\ req[r].pc = "count"
    /\ req' = [req EXCEPT ![r].pc = "done", ![r].status = 200,
                  ![r].total = Cardinality(Matching(req[r].query))]
    /\ UNCHANGED <<users, needs, transactions, nreq, okUnlocks, client>>

\* WHERE n.status = 'active' and the two optional equalities
RelMatchesQuery(need, q) ==
    /\ need.status = "active"
    /\ need.user \in DOMAIN users
    /\ q.category # "" => need.category = q.category
    /\ q.location # <<>> => need.location = q.location

\* One row of SELECT n.*, u.full_name, u.gender after the handler's map has
\* nulled contact_methods, user_phone and user_email.
SafeNeed(n) ==
    [id |-> n, user_id |-> needs[n].user, title |-> needs[n].title,
     description |-> needs[n].description, budget |-> needs[n].budget,
     location |-> needs[n].location, category |-> needs[n].category,
     status |-> needs[n].status, created_at |-> needs[n].createdAt,
     full_name |-> users[needs[n].user].fullName,
     gender |-> users[needs[n].user].gender,
     contact_methods |-> Null, user_phone |-> Null, user_email |-> Null]

RelQueries ==
    [category : {"", "services"},
     location : {<<>>, <<"K", "i">>, <<"k">>},
     minBudget : {Undefined}, maxBudget : {Undefined}, sort : {""},
     page : {0}, limit : {1, 20}, offset : {0, 1}]

RelListNeedsStart(r, q, pre) ==
    /\ CanStart(r)
    /\ req' = [req EXCEPT ![r] =
                 [IdleReq EXCEPT !.kind = "relListNeeds", !.pc = "execute",
                                 !.query = q, !.pre = pre]]
    /\ nreq' = nreq + 1
    /\ UNCHANGED <<users, needs, transactions, okUnlocks, client>>

\* const [needs] = await pool.execute(query, params); res.json(safeNeeds)
RelListNeedsExecute(r) ==
    /\ req[r].kind = "relListNeeds" /\ req[r].pc = "execute"
    /\ LET q == req[r].query
           ids == {n \in DOMAIN needs : RelMatchesQuery(needs[n], q)}
       IN  \E s \in Sorted(ids, "newest") :
              LET page == Page(s, q.offset, q.limit)
              IN  req' = [req EXCEPT ![r].pc = "done", ![r].status = 200,
                             ![r].list =
                                 [i \in DOMAIN page |-> SafeNeed(page[i])]]
    /\ UNCHANGED <<users, needs, transactions, nreq, okUnlocks, client>>

(***************************************************************************)
(* POST /api/payments/unlock of the relational backend.  Its tables are    *)
(* the three collections; a row of transactions has the columns of the     *)
(* INSERT.                                                                 *)
(***************************************************************************)
\* verifyMpesaPayment: mpesaCode && mpesaCode.startsWith('MPS')
PaymentVerified(code) == ~Falsy(code) /\ StartsWith(code.s, MpesaPrefix)

\* INSERT INTO transactions (fulfiller_id, need_id, amount, status,
\* mpesa_code) VALUES (?, ?, 100, 'completed', ?)
RelTransaction(fulfillerId, needId, code) ==
    [fulfiller_id |-> fulfillerId, need_id |-> needId,
     amount |-> Num(Fx(100)), status |-> "completed", mpesa_code |-> code]

\* The rows of SELECT n.*, u.phone, u.email FROM needs n JOIN users u ON
\* n.user_id = u.id WHERE n.id = ?
RelNeedRows(needId) ==
    {n \in DOMAIN needs : n = needId /\ needs[n].user \in DOMAIN users}

\* The request arrives; the body names the fulfiller, the need and the
\* payment code, and no token is asked for.
RelUnlockStart(r, fulfillerId, needId, code, pre) ==
    /\ CanStart(r)
    /\ req' = [req EXCEPT ![r] =
                 [IdleReq EXCEPT !.kind = "relUnlock", !.pc = "verify",
                                 !.userId = fulfillerId, !.needId = needId,
                                 !.mpesaCode = code, !.pre = pre]]
    /\ nreq' = nreq + 1
    /\ UNCHANGED <<users, needs, transactions, okUnlocks, client>>

\* const paymentVerified = await verifyMpesaPayment(mpesaCode, 100); a code
\* that is no string has no startsWith, and the catch answers 500
RelUnlockVerify(r) ==
    /\ req[r].kind = "relUnlock" /\ req[r].pc = "verify"
    /\ LET code == req[r].mpesaCode
       IN  req' =
             IF ~Falsy(code) /\ code.t # "string"
             THEN Respond(r, 500, "Failed to unlock contact")
             ELSE IF ~PaymentVerified(code)
             THEN Respond(r, 400, "Payment verification failed")
             ELSE [req EXCEPT ![r].pc = "insert"]
    /\ UNCHANGED <<users, needs, transactions, nreq, okUnlocks, client>>

\* await pool.execute(INSERT INTO transactions ...): the row is stored, or
\* the database rejects it and the catch answers 500
RelUnlockInsert(r) ==
    /\ req[r].kind = "relUnlock" /\ req[r].pc = "insert"
    /\ \/ /\ transactions' =
                InsertTransaction(RelTransaction(req[r].userId, req[r].needId,
                                                 req[r].mpesaCode))
          /\ req' = [req EXCEPT ![r].pc = "select"]
       \/ /\ req' = Respond(r, 500, "Failed to unlock contact")
          /\ UNCHANGED transactions
    /\ UNCHANGED <<users, needs, nreq, okUnlocks, client>>

\* const [needs] = await pool.execute(SELECT ...); no row is answered 404,
\* a row with the owner's phone and email
RelUnlockSelect(r) ==
    /\ req[r].kind = "relUnlock" /\ req[r].pc = "select"
    /\ req' =
         IF RelNeedRows(req[r].needId) = {}
         THEN Respond(r, 404, "Need not found")
         ELSE LET owner == users[needs[req[r].needId].user]
              IN  [req EXCEPT
                     ![r].pc = "done", ![r].status = 200,
                     ![r].contactInfo =
                         [NoContactInfo EXCEPT !.phone = owner.phone,
                                               !.email = owner.email]]
    /\ UNCHANGED <<users, needs, transactions, nreq, okUnlocks, client>>

(***************************************************************************)
(* GET /api/dashboard/stats: the two counts of unlocks                     *)
(***************************************************************************)
\* How often fulfiller f occurs in an unlockedBy array.
Occurrences(f, unlockedBy) ==
    Cardinality({j \in DOMAIN unlockedBy : unlockedBy[j] = f})

\* Need.countDocuments({ unlockedBy: userId }): the needs that list f
UnlockedNeeds(f) ==
    Cardinality({n \in DOMAIN needs : Occurrences(f, needs[n].unlockedBy) > 0})

\* The number of documents of a set of ledger entries.
RECURSIVE CountDocuments(_)
CountDocuments(txs) ==
    IF txs = {} THEN 0
    ELSE LET tx == CHOOSE t \in txs : TRUE
         IN  CopiesIn(tx, transactions) + CountDocuments(txs \ {tx})

\* Transaction.countDocuments({ need: { $in: <the asker's needs> },
\* type: 'unlock' })
TotalOffers(asker) ==
    CountDocuments({tx \in BagToSet(transactions) :
                       /\ tx.type = "unlock"
                       /\ tx.need \in DOMAIN needs
                       /\ needs[tx.need].user = asker})

(***************************************************************************)
(* The service worker's background sync (app.js).  A pass is one call of   *)
(* syncNeeds; it holds the array getOfflineNeeds resolved with, the index  *)
(* of the entry the loop is at, and the outcome of each submission so far. *)
(***************************************************************************)
\* fetch rejects: the request failed before any response arrived.
NetworkFailure == 0

\* The statuses the posting endpoint answers with: created, no token (the
\* request carries no Authorization header), and the handler's catch.
EndpointAnswers == {201, 401, 500}

IdlePass == [pc |-> "idle", list |-> <<>>, i |-> 0, answers |-> <<>>]

\* A pass is between its start and the end of its loop.
InFlight(p) == passes[p].pc \notin {"idle", "done"}

\* The page puts an entry under a client-generated key while offline.
Enqueue(k) ==
    /\ Len(inserted) < MaxEntries
    /\ \A j \in DOMAIN inserted : inserted[j] # k
    /\ offline' = offline @@ (k :> [id |-> k])
    /\ inserted' = Append(inserted, k)
    /\ UNCHANGED <<passes, server>>

\* store.getAll(): the stored entries in ascending order of their key
GetAll ==
    LET count == Cardinality(DOMAIN offline)
        keys == CHOOSE s \in [1..count -> DOMAIN offline] :
                    \A i, j \in DOMAIN s : i < j => s[i] < s[j]
    IN  [i \in DOMAIN keys |-> offline[keys[i]]]

\* for (const need of offlineNeeds): the loop moves to the next entry, or
\* ends after the last one
NextEntry(pass) ==
    [pass EXCEPT !.i = @ + 1,
                 !.pc = IF pass.i + 1 > Len(pass.list)
                        THEN "done" ELSE "fetch"]

Caught_Rethrown(pass) == [pass EXCEPT !.pc = "done"]

\* catch (error) { console.error(...) }: the loop goes on
Caught(pass) == NextEntry(pass)

\* A 'sync' event tagged 'sync-needs' arrives: the listener calls syncNeeds,
\* whatever else is running.
SyncTrigger(p) ==
    /\ passes[p].pc = "idle"
    /\ \A q \in Passes : q < p => passes[q].pc # "idle"
    /\ passes' = [passes EXCEPT ![p].pc = "getAll"]
    /\ UNCHANGED <<offline, inserted, server>>

\* const offlineNeeds = await getOfflineNeeds()
PassGetAll(p) ==
    /\ passes[p].pc = "getAll"
    /\ passes' = [passes EXCEPT ![p] =
                    NextEntry([passes[p] EXCEPT !.list = GetAll])]
    /\ UNCHANGED <<offline, inserted, server>>

\* await fetch('/api/needs', { method: 'POST', ... }): the promise resolves
\* with the response, whatever its status, or rejects
PassFetch(p) ==
    /\ passes[p].pc = "fetch"
    /\ \/ \E a \in EndpointAnswers :
             passes' = [passes EXCEPT ![p].answers = Append(@, a),
                                      ![p].pc = "remove"]
       \/ passes' = [passes EXCEPT ![p] =
                        Caught([passes[p] EXCEPT
                                  !.answers = Append(@, NetworkFailure)])]
    /\ UNCHANGED <<offline, inserted, server>>

\* await removeOfflineNeed(need.id): store.delete(id)
PassRemove(p) ==
    /\ passes[p].pc = "remove"
    /\ LET id == passes[p].list[passes[p].i].id
       IN  offline' = [k \in DOMAIN offline \ {id} |-> offline[k]]
    /\ passes' = [passes EXCEPT ![p] = NextEntry(passes[p])]
    /\ UNCHANGED <<inserted, server>>

\* syncNeeds has returned; its variables are gone.
PassFinish(p) ==
    /\ passes[p].pc = "done"
    /\ passes' = [passes EXCEPT ![p] = IdlePass]
    /\ UNCHANGED <<offline, inserted, server>>

(***************************************************************************)
(* The TTL index on Need.expiresAt: the store removes a need whose expiry  *)
(* instant has passed, whatever its status.                                *)
(***************************************************************************)
ExpireNeed(n) ==
    /\ n \in DOMAIN needs
    /\ needs' = [m \in DOMAIN needs \ {n} |-> needs[m]]
    /\ UNCHANGED <<users, transactions, req, nreq, okUnlocks, client>>

\* The response has been sent; the handler's variables are gone.
Finish(r) ==
    /\ req[r].pc = "done"
    /\ req' = [req EXCEPT ![r] = IdleReq]
    /\ UNCHANGED <<users, needs, transactions, nreq, okUnlocks, client>>

(***************************************************************************)
(* Specifications.  The store holds an asker (user 1), a fulfiller (user   *)
(* 2) and the asker's need 1; the fulfiller has bought nothing yet, or has *)
(* bought one credit.                                                      *)
(***************************************************************************)
Asker1 ==
    [role |-> "asker", email |-> "e1", phone |-> "p1", fullName |-> "asker",
     location |-> "town", gender |-> "female", rating |-> Num(Fx(5)),
     credits |-> Null]

Fulfiller2(c) ==
    [role |-> "fulfiller", email |-> "e2", phone |-> "p2",
     fullName |-> "fulfiller", location |-> "city", gender |-> "male",
     rating |-> Num(Fx(5)), credits |-> c]

Need1 ==
    [user |-> 1, title |-> "plumber", description |-> "leak",
     budget |-> Num(Fx(1000)),
     category |-> "services", location |-> <<"N", "a", "i">>,
     timeframe |-> "flexible", status |-> "active", createdAt |-> 0,
     unlockedBy |-> <<>>, offers |-> <<>>, selectedFulfiller |-> Undefined]

FirstPurchase ==
    PurchaseTransaction(2, Num(Fx(100)), Str(<<"M", "P", "S", "7">>))

Init ==
    /\ needs = (1 :> Need1)
    /\ \/ /\ users = (1 :> Asker1) @@ (2 :> Fulfiller2(Num(0)))
          /\ transactions = EmptyBag
       \/ /\ users = (1 :> Asker1) @@ (2 :> Fulfiller2(Num(Fx(1))))
          /\ transactions = SetToBag({FirstPurchase})
    /\ req = [r \in Slots |-> IdleReq]
    /\ nreq = 0
    /\ okUnlocks = {}
    /\ offline = <<>>
    /\ inserted = <<>>
    /\ passes = [p \in Passes |-> IdlePass]

\* A request arrives.
Start(r, pre) ==
    \/ \E u \in UserIds, n \in NeedIds : UnlockStart(r, u, n, pre)
    \/ \E u \in UserIds, a \in Amounts, c \in MpesaCodes :
          AddCreditsStart(r, u, a, c, pre)
    \/ \E role \in Roles, e \in Emails, p \in Phones :
          RegisterStart(r, [role |-> role, email |-> e, phone |-> p], pre)

\* The next step of the request in slot r.
Step(r) ==
    \/ UnlockFindNeed(r)
    \/ UnlockFindUser(r)
    \/ UnlockSaveUser(r)
    \/ UnlockSaveNeed(r)
    \/ UnlockSaveTransaction(r)
    \/ UnlockFindAsker(r)
    \/ AddCreditsFindUser(r)
    \/ AddCreditsSaveUser(r)
    \/ AddCreditsSaveTransaction(r)
    \/ RegisterFindOne(r)
    \/ RegisterSave(r)
    \/ Finish(r)

\* Requests are handled concurrently: their steps interleave.
Next ==
    \/ \E r \in Slots : (nreq < MaxRacing /\ Start(r, NoPre)) \/ Step(r)
    \/ \E n \in NeedIds : ExpireNeed(n)

Spec == Init /\ [][Next]_vars

\* Requests are handled one after the other, and a need expires between two.
NextSeq ==
    \/ \E r \in Slots : (AllIdle /\ Start(r, Snapshot)) \/ Step(r)
    \/ \E n \in NeedIds : AllIdle /\ ExpireNeed(n)

SpecSeq == Init /\ [][NextSeq]_vars

\* Posting and browsing needs, one request after the other.
StartNeeds(r, pre) ==
    \/ \E u \in UserIds, body \in NeedBodies : PostNeedStart(r, u, body, pre)
    \/ \E q \in Queries : ListNeedsStart(r, q, pre)
    \/ \E q \in RelQueries : RelListNeedsStart(r, q, pre)

StepNeeds(r) ==
    \/ PostNeedFindUser(r)
    \/ PostNeedSave(r)
    \/ ListNeedsFind(r)
    \/ ListNeedsCount(r)
    \/ RelListNeedsExecute(r)
    \/ Finish(r)

NextNeeds ==
    \/ \E r \in Slots : (AllIdle /\ StartNeeds(r, Snapshot)) \/ StepNeeds(r)
    \/ \E n \in NeedIds : AllIdle /\ ExpireNeed(n)

SpecNeeds == Init /\ [][NextNeeds]_vars

\* Unlock requests of different callers, handled concurrently, in a store
\* with two fulfillers who hold one credit each.
Fulfiller3 ==
    [Fulfiller2(Num(Fx(1))) EXCEPT !.email = "e3", !.phone = "p3"]

InitPair ==
    /\ users = (1 :> Asker1) @@ (2 :> Fulfiller2(Num(Fx(1))))
                   @@ (3 :> Fulfiller3)
    /\ needs = (1 :> Need1)
    /\ transactions =
          SetToBag({FirstPurchase,
                    PurchaseTransaction(3, Num(Fx(100)),
                                        Str(<<"M", "P", "S", "7">>))})
    /\ req = [r \in Slots |-> IdleReq]
    /\ nreq = 0
    /\ okUnlocks = {}
    /\ offline = <<>>
    /\ inserted = <<>>
    /\ passes = [p \in Passes |-> IdlePass]

StepPair(r) ==
    \/ UnlockFindNeed(r)
    \/ UnlockFindUser(r)
    \/ UnlockSaveUser(r)
    \/ UnlockSaveNeed(r)
    \/ UnlockSaveTransaction(r)
    \/ UnlockFindAsker(r)
    \/ Finish(r)

NextPair ==
    \/ \E r \in Slots :
          \/ \E u \in UserIds, n \in NeedIds :
                /\ \A q \in Slots : req[q].userId # u
                /\ UnlockStart(r, u, n, Snapshot)
          \/ StepPair(r)
    \/ \E n \in NeedIds : ExpireNeed(n)

SpecPair == InitPair /\ [][NextPair]_vars

\* Register requests handled concurrently, in a store that holds one user.
RawEmails == {"e1", "e3", "E3"}

InitRegister ==
    /\ users = (1 :> Asker1)
    /\ needs = <<>>
    /\ transactions = EmptyBag
    /\ req = [r \in Slots |-> IdleReq]
    /\ nreq = 0
    /\ okUnlocks = {}
    /\ offline = <<>>
    /\ inserted = <<>>
    /\ passes = [p \in Passes |-> IdlePass]

NextRegister ==
    \E r \in Slots :
       \/ \E role \in Roles, e \in RawEmails, p \in Phones :
             RegisterStart(r, [role |-> role, email |-> e, phone |-> p],
                           Snapshot)
       \/ RegisterFindOne(r)
       \/ RegisterSave(r)
       \/ Finish(r)

SpecRegister == InitRegister /\ [][NextRegister]_vars

\* The unlock handlers of the two backends, one request after the other.
StartBackends(r, pre) ==
    \/ \E u \in UserIds, n \in NeedIds : UnlockStart(r, u, n, pre)
    \/ \E u \in UserIds, n \in NeedIds, c \in MpesaCodes :
          RelUnlockStart(r, u, n, c, pre)

StepBackends(r) ==
    \/ StepPair(r)
    \/ RelUnlockVerify(r)
    \/ RelUnlockInsert(r)
    \/ RelUnlockSelect(r)

NextBackends ==
    \/ \E r \in Slots :
          (AllIdle /\ StartBackends(r, Snapshot)) \/ StepBackends(r)
    \/ \E n \in NeedIds : AllIdle /\ ExpireNeed(n)

SpecBackends == Init /\ [][NextBackends]_vars

\* The service worker alone: entries are queued and sync events arrive at
\* any moment, also while a pass is in flight.
InitSync ==
    /\ users = (1 :> Asker1)
    /\ needs = <<>>
    /\ transactions = EmptyBag
    /\ req = [r \in Slots |-> IdleReq]
    /\ nreq = 0
    /\ okUnlocks = {}
    /\ offline = <<>>
    /\ inserted = <<>>
    /\ passes = [p \in Passes |-> IdlePass]

StepSync(p) ==
    \/ PassGetAll(p)
    \/ PassFetch(p)
    \/ PassRemove(p)
    \/ PassFinish(p)

NextSync ==
    \/ \E k \in EntryIds : Enqueue(k)
    \/ \E p \in Passes : SyncTrigger(p) \/ StepSync(p)

SpecSync == InitSync /\ [][NextSync]_vars

\* The service worker when a sync event arrives only after the pass before
\* it has returned.
NextSyncOne ==
    \/ \E k \in EntryIds : Enqueue(k)
    \/ \E p \in Passes :
          \/ (\A q \in Passes : passes[q].pc = "idle") /\ SyncTrigger(p)
          \/ StepSync(p)

SpecSyncOne == InitSync /\ [][NextSyncOne]_vars

(***************************************************************************)
(* Properties.  Under SpecSeq a finished request still holds, in pre, the  *)
(* collections as it found them.                                           *)
(***************************************************************************)
\* Request r has been answered.
Done(r, kind) == req[r].pc = "done" /\ req[r].kind = kind

\* Request r left the three collections as it found them.
NothingWritten(r) ==
    /\ users = req[r].pre.users
    /\ needs = req[r].pre.needs
    /\ transactions = req[r].pre.transactions

\* An unlock request for a pair (need, fulfiller) whose unlock had been
\* answered 200 before the request arrived.
LaterUnlock(r) ==
    /\ Done(r, "unlock")
    /\ <<req[r].needId, req[r].userId>> \in req[r].pre.okUnlocks

\* C1 as stated: once unlock(n, f) has succeeded, every later unlock(n, f),
\* the requests run one after the other, is answered 400 "Already unlocked"
\* and leaves the balance, n.unlockedBy and the ledger as they were.
C1_LaterUnlockAlreadyUnlocked ==
    \A r \in Slots :
        LaterUnlock(r) =>
            /\ req[r].status = 400
            /\ req[r].error = "Already unlocked this need"
            /\ NothingWritten(r)

\* C1 amended: once unlock(n, f) has succeeded, every later unlock(n, f) is
\* answered 400 "Already unlocked", or 404 "Need not found" when the need has
\* been removed by its expiry in between, and writes nothing.
C1_LaterUnlockRejected ==
    \A r \in Slots :
        LaterUnlock(r) =>
            /\ \/ /\ req[r].status = 400
                  /\ req[r].error = "Already unlocked this need"
               \/ /\ req[r].status = 404
                  /\ req[r].needId \notin DOMAIN req[r].pre.needs
            /\ NothingWritten(r)

\* C1's case: a second unlock of an unlocked, still stored need was answered.
C1_Witness ==
    \E r \in Slots :
        /\ LaterUnlock(r)
        /\ req[r].needId \in DOMAIN needs
        /\ req[r].status = 400

\* C2: in every reachable state, under any interleaving of unlock requests,
\* each fulfiller identity occurs at most once in a need's unlockedBy list.
C2_UnlockedByHasNoDuplicate ==
    \A n \in DOMAIN needs :
        \A i, j \in 1..Len(needs[n].unlockedBy) :
            i # j => needs[n].unlockedBy[i] # needs[n].unlockedBy[j]

\* Two requests in flight together that unlock the same need for the same
\* fulfiller and have both been answered.
BothAnswered(r1, r2) ==
    /\ r1 # r2
    /\ Done(r1, "unlock") /\ Done(r2, "unlock")
    /\ req[r1].userId = req[r2].userId
    /\ req[r1].needId = req[r2].needId

\* The completed unlock transactions of fulfiller f for need n in the ledger.
UnlocksInLedger(f, n) ==
    CopiesIn([user |-> f, need |-> n, amount |-> Num(Fx(100)),
              mpesaCode |-> NoString, type |-> "unlock",
              status |-> "completed"], transactions)

\* C3: of two concurrent unlock requests by the same fulfiller for the same
\* need at most one succeeds, and the ledger gets exactly one completed unlock
\* transaction for the pair: no double charge.
C3_ConcurrentUnlockChargesOnce ==
    \A r1, r2 \in Slots :
        BothAnswered(r1, r2) =>
            /\ ~(req[r1].status = 200 /\ req[r2].status = 200)
            /\ UnlocksInLedger(req[r1].userId, req[r1].needId) <= 1

\* The three writes of the unlock request r, each compared with what the
\* request found.
CreditDeducted(r) ==
    JSLess(users[req[r].userId].credits,
           req[r].pre.users[req[r].userId].credits)

AppendedToUnlockedBy(r) ==
    /\ req[r].needId \in DOMAIN needs
    /\ Len(needs[req[r].needId].unlockedBy)
         > Len(req[r].pre.needs[req[r].needId].unlockedBy)

LedgerEntryAdded(r) ==
    UnlocksInLedger(req[r].userId, req[r].needId) >
        CopiesIn([user |-> req[r].userId, need |-> req[r].needId,
                  amount |-> Num(Fx(100)), mpesaCode |-> NoString,
                  type |-> "unlock", status |-> "completed"],
                 req[r].pre.transactions)

\* C4: unlock is all-or-nothing: when the request has ended, either the
\* credit is deducted and the fulfiller appended and the ledger entry
\* written, or none of the three; a credit is never deducted without its
\* ledger entry.
C4_UnlockAllOrNothing ==
    \A r \in Slots :
        (Done(r, "unlock") /\ req[r].needId \in DOMAIN req[r].pre.needs) =>
            \/ CreditDeducted(r) /\ AppendedToUnlockedBy(r)
                 /\ LedgerEntryAdded(r)
            \/ NothingWritten(r)

\* An unlock request that found its caller a fulfiller with fewer than one
\* credit and its need stored and not yet unlocked by the caller.
UnlockWithoutCredit(r) ==
    /\ Done(r, "unlock")
    /\ req[r].needId \in DOMAIN req[r].pre.needs
    /\ LET f == req[r].pre.users[req[r].userId]
           n == req[r].pre.needs[req[r].needId]
       IN  /\ f.role = "fulfiller"
           /\ f.credits.t = "number" /\ f.credits.v < Fx(1)
           /\ \A i \in 1..Len(n.unlockedBy) : n.unlockedBy[i] # req[r].userId

\* C5: an unlock by a fulfiller with fewer than 1 credit who has not unlocked
\* the need is answered 400 "Insufficient credits", creates no transaction
\* and leaves unlockedBy and the balance unchanged.
C5_InsufficientCreditsRejected ==
    \A r \in Slots :
        UnlockWithoutCredit(r) =>
            /\ req[r].status = 400
            /\ req[r].error = "Insufficient credits. Please add credits first."
            /\ NothingWritten(r)

\* C5's case: such a request was answered, by a fulfiller holding half a
\* credit or none.
C5_Witness ==
    \E r \in Slots : UnlockWithoutCredit(r) /\ req[r].status = 400

\* C6: a successful unlock(n, f) takes exactly 1 credit from f, appends f to
\* n.unlockedBy, adds exactly one transaction (user f, need n, type unlock,
\* status completed, amount 100) and returns the contact fields of n's
\* asker, which are those of no other user; it follows that the need was
\* stored, f a fulfiller with at least 1 credit, and f not in unlockedBy.
C6_SuccessfulUnlockEffect ==
    \A r \in Slots :
        (Done(r, "unlock") /\ req[r].status = 200) =>
            LET f == req[r].userId
                n == req[r].needId
                pre == req[r].pre
            IN  /\ n \in DOMAIN pre.needs
                /\ pre.users[f].role = "fulfiller"
                /\ pre.users[f].credits.t = "number"
                /\ pre.users[f].credits.v >= Fx(1)
                /\ \A i \in 1..Len(pre.needs[n].unlockedBy) :
                       pre.needs[n].unlockedBy[i] # f
                /\ users = [pre.users EXCEPT ![f].credits =
                               Num(pre.users[f].credits.v - Fx(1))]
                /\ needs = [pre.needs EXCEPT ![n].unlockedBy =
                               pre.needs[n].unlockedBy \o <<f>>]
                /\ transactions = pre.transactions (+) SetToBag({
                       [user |-> f, need |-> n, amount |-> Num(Fx(100)),
                        mpesaCode |-> NoString, type |-> "unlock",
                        status |-> "completed"]})
                /\ LET asker == pre.users[pre.needs[n].user]
                   IN  /\ req[r].contactInfo.fullName = asker.fullName
                       /\ req[r].contactInfo.phone = asker.phone
                       /\ req[r].contactInfo.email = asker.email
                       /\ req[r].contactInfo.location = asker.location
                       /\ req[r].contactInfo.rating = asker.rating
                /\ \A o \in DOMAIN users \ {pre.needs[n].user} :
                       /\ req[r].contactInfo.phone # users[o].phone
                       /\ req[r].contactInfo.email # users[o].email

\* C6's case: an unlock was answered 200.
C6_Witness ==
    \E r \in Slots : Done(r, "unlock") /\ req[r].status = 200

\* C7: in every reachable state every user's credits are a non-negative
\* number (the null an asker is registered with is read as no credits).
C7_CreditsNeverNegative ==
    \A id \in DOMAIN users :
        /\ users[id].credits.t \in {"number", "null"}
        /\ users[id].credits.v >= 0

\* C8: no addCredits request, whatever its amount and its outcome, leaves a
\* balance lower than the request found it, and no unlock request leaves a
\* balance higher.
C8_CreditsMonotonePerRequest ==
    \A r \in Slots : \A id \in DOMAIN req[r].pre.users :
        /\ Done(r, "addCredits") =>
               ~JSLess(users[id].credits, req[r].pre.users[id].credits)
        /\ Done(r, "unlock") =>
               ~JSLess(req[r].pre.users[id].credits, users[id].credits)

\* A payment code that is missing, empty, or a string that does not begin
\* with M, P, S.
MissingOrWithoutPrefix(code) ==
    \/ code.t = "undefined"
    \/ /\ code.t = "string"
       /\ \/ Len(code.s) < 3
          \/ code.s[1] # "M" \/ code.s[2] # "P" \/ code.s[3] # "S"

C10_SuccessfulAddCreditsEffect ==
    \A r \in Slots :
        (Done(r, "addCredits") /\ req[r].status = 200) =>
            LET u == req[r].userId
                pre == req[r].pre
                before == IF pre.users[u].credits.t = "null" THEN 0
                          ELSE pre.users[u].credits.v
            IN  /\ req[r].amount.t = "number"
                /\ users[u].credits.t = "number"
                /\ (users[u].credits.v - before) * 100 = req[r].amount.v
                /\ users = [pre.users EXCEPT ![u].credits = users[u].credits]
                /\ needs = pre.needs
                /\ transactions = pre.transactions (+) SetToBag({
                       [user |-> u, need |-> 0, amount |-> req[r].amount,
                        mpesaCode |-> req[r].mpesaCode,
                        type |-> "credit_purchase", status |-> "completed"]})
                /\ req[r].credits = users[u].credits

\* C10's case: a purchase of half a credit was answered 200.
C10_Witness ==
    \E r \in Slots :
        /\ Done(r, "addCredits")
        /\ req[r].status = 200
        /\ req[r].amount = Num(Fx(50))


(***************************************************************************)
(* Properties of posting and browsing needs, under SpecNeeds.              *)
(***************************************************************************)
\* One element of a list response names no phone and no email: neither as
\* a field of the need, nor in the populated user, nor in the columns the
\* relational handler nulls.
WithoutContact(item) ==
    /\ DOMAIN item \cap {"phone", "email"} = {}
    /\ "user" \in DOMAIN item =>
          \/ item.user = Null
          \/ DOMAIN item.user \subseteq
                 {"_id", "fullName", "location", "rating"}
    /\ "user_phone" \in DOMAIN item =>
          /\ item.user_phone = Null
          /\ item.user_email = Null
          /\ item.contact_methods = Null

\* Request r is an answered list request of either backend.
ListAnswered(r) ==
    /\ Done(r, "listNeeds") \/ Done(r, "relListNeeds")
    /\ req[r].status = 200

\* C11: every need in the response of a list request, in the document
\* backend and in the relational one, has status active, and no element of
\* the response carries the phone or the email of a user.
C11_ListShowsActiveWithoutContact ==
    \A r \in Slots :
        ListAnswered(r) =>
            \A i \in DOMAIN req[r].list :
                /\ req[r].list[i].status = "active"
                /\ WithoutContact(req[r].list[i])

\* A list request of the document backend answered with both stored needs.
C11_Witness ==
    \E r \in Slots :
        /\ Done(r, "listNeeds")
        /\ req[r].status = 200
        /\ Len(req[r].list) = 2
        /\ req[r].list[1].user.fullName = "asker"

\* A post-need request of an asker whose body carries a budget below zero
\* or a category outside the schema's enumeration.
InvalidNeedPosted(r) ==
    /\ Done(r, "postNeed")
    /\ req[r].userId \in DOMAIN req[r].pre.users
    /\ req[r].pre.users[req[r].userId].role = "asker"
    /\ \/ /\ req[r].needBody.budget.t = "number"
          /\ req[r].needBody.budget.v < 0
       \/ /\ req[r].needBody.category # ""
          /\ req[r].needBody.category \notin NeedCategories

\* C12: a post-need request with a budget below zero or a category outside
\* the enumeration is answered 400 and creates no need.
C12_InvalidNeedAnswered400 ==
    \A r \in Slots :
        InvalidNeedPosted(r) =>
            /\ req[r].status = 400
            /\ needs = req[r].pre.needs

\* A post-need request of a caller who is stored and is not an asker.
PostedByNonAsker(r) ==
    /\ Done(r, "postNeed")
    /\ req[r].userId \in DOMAIN req[r].pre.users
    /\ req[r].pre.users[req[r].userId].role # "asker"

\* The need a post-need request answered 201 has created is stored, was not
\* stored before, is active and belongs to the caller.
CreatedActiveAndOwned(r) ==
    (Done(r, "postNeed") /\ req[r].status = 201) =>
        /\ req[r].needId \in DOMAIN needs \ DOMAIN req[r].pre.needs
        /\ needs[req[r].needId].status = "active"
        /\ needs[req[r].needId].user = req[r].userId

\* C13 as stated: a post-need request of a caller who is not an asker is
\* answered 403 and creates no need; a created need is active and belongs
\* to the caller.
C13_NonAskerAnswered403 ==
    \A r \in Slots :
        /\ PostedByNonAsker(r) =>
              (req[r].status = 403 /\ needs = req[r].pre.needs)
        /\ CreatedActiveAndOwned(r)

\* C13: a post-need request of a caller who is not an asker creates no
\* need; it is answered 403 when its body passes the validation chain and
\* 400 when it does not.  A created need is active and belongs to the
\* caller.
C13_NonAskerCreatesNoNeed ==
    \A r \in Slots :
        /\ PostedByNonAsker(r) =>
              /\ needs = req[r].pre.needs
              /\ req[r].status =
                    IF PostNeedBodyValid(req[r].needBody) THEN 403 ELSE 400
        /\ CreatedActiveAndOwned(r)

\* The fulfiller has posted a need the schema would accept and was refused.
C13_Witness ==
    \E r \in Slots :
        /\ PostedByNonAsker(r)
        /\ PostNeedBodyValid(req[r].needBody)
        /\ ValidNeed(NewNeed(req[r].userId, req[r].needBody, 1))
        /\ req[r].status = 403
        /\ needs = req[r].pre.needs


(***************************************************************************)
(* Properties of the background sync.                                      *)
(***************************************************************************)
\* The posting endpoint has confirmed the submission.
Confirmed(a) == a \in {200, 201}

\* The key of the j-th entry of pass p.
EntryOf(p, j) == passes[p].list[j].id

\* Where key k stands in the order of insertion.
InsertedAt(k) == CHOOSE j \in DOMAIN inserted : inserted[j] = k

\* C14: an entry whose submission in a pass was not confirmed (it was
\* answered with an error status, or the request failed) is still in the
\* queue; only a confirmed submission removes its entry.
C14_UnconfirmedEntryStaysQueued ==
    \A p \in Passes :
        passes[p].pc \in {"fetch", "done"} =>
            \A j \in DOMAIN passes[p].answers :
                ~Confirmed(passes[p].answers[j]) =>
                    EntryOf(p, j) \in DOMAIN offline

\* C15: when a pass ends, every entry it read at its start has been
\* submitted, and an entry whose submission threw is still in the queue.
C15_ThrowDoesNotStopPass ==
    \A p \in Passes :
        passes[p].pc = "done" =>
            /\ Len(passes[p].answers) = Len(passes[p].list)
            /\ \A j \in DOMAIN passes[p].list :
                  passes[p].answers[j] = NetworkFailure =>
                      EntryOf(p, j) \in DOMAIN offline

\* A pass over two entries has ended; its first submission threw and its
\* second one was answered.
C15_Witness ==
    \E p \in Passes :
        /\ passes[p].pc = "done"
        /\ Len(passes[p].list) = 2
        /\ passes[p].answers[1] = NetworkFailure
        /\ passes[p].answers[2] = 201
        /\ EntryOf(p, 1) \in DOMAIN offline
        /\ EntryOf(p, 2) \notin DOMAIN offline

\* C16: a pass submits the entries in the order in which they were put on
\* the queue, whatever their keys.
C16_SubmitsInInsertionOrder ==
    \A p \in Passes :
        \A i, j \in DOMAIN passes[p].answers :
            i < j => InsertedAt(EntryOf(p, i)) < InsertedAt(EntryOf(p, j))

\* C17: no entry is submitted by two passes that are in flight together.
C17_NoOverlappingSubmission ==
    \A p, q \in Passes :
        (p # q /\ InFlight(p) /\ InFlight(q)) =>
            \A i \in DOMAIN passes[p].answers :
                \A j \in DOMAIN passes[q].answers :
                    EntryOf(p, i) # EntryOf(q, j)


(***************************************************************************)
(* Properties of concurrent unlocks by different fulfillers, under         *)
(* SpecPair, and of registration, under SpecRegister.                      *)
(***************************************************************************)
\* Request r is an answered unlock of a fulfiller who held at least one
\* credit and had not unlocked the need when the request arrived, and
\* neither the store failed nor the need expired under it.
FirstUnlockAnswered(r) ==
    /\ Done(r, "unlock")
    /\ req[r].needId \in DOMAIN req[r].pre.needs
    /\ req[r].pre.users[req[r].userId].role = "fulfiller"
    /\ ~JSLess(req[r].pre.users[req[r].userId].credits, Num(Fx(1)))
    /\ ~AlreadyUnlocked(req[r].pre.needs[req[r].needId], req[r].userId)
    /\ req[r].status \notin {404, 500}

\* The effect of unlock request r is in the store.
ChargedAndListed(r) ==
    /\ req[r].status = 200
    /\ users[req[r].userId].credits =
           JSSub(req[r].pre.users[req[r].userId].credits, Num(Fx(1)))
    /\ req[r].needId \in DOMAIN needs =>
           \E j \in DOMAIN needs[req[r].needId].unlockedBy :
               needs[req[r].needId].unlockedBy[j] = req[r].userId

\* C18: two unlock requests of different fulfillers for the same need,
\* however their reads and saves interleave, both succeed; each fulfiller
\* is charged one credit and both are in the need's unlockedBy.
C18_DifferentFulfillersIndependent ==
    \A r1, r2 \in Slots :
        ( /\ r1 # r2
          /\ FirstUnlockAnswered(r1) /\ FirstUnlockAnswered(r2)
          /\ req[r1].needId = req[r2].needId
          /\ req[r1].userId # req[r2].userId ) =>
            ChargedAndListed(r1) /\ ChargedAndListed(r2)

\* Both fulfillers' requests arrived before either had saved the need, both
\* are answered, and the need lists both.
C18_Witness ==
    /\ FirstUnlockAnswered(1) /\ FirstUnlockAnswered(2)
    /\ req[1].userId = 2 /\ req[2].userId = 3
    /\ req[1].needId = 1 /\ req[2].needId = 1
    /\ req[1].pre.needs[1].unlockedBy = <<>>
    /\ req[2].pre.needs[1].unlockedBy = <<>>
    /\ req[2].pre.users[2].credits = Num(Fx(1))
    /\ 1 \in DOMAIN needs
    /\ Len(needs[1].unlockedBy) = 2
    /\ ChargedAndListed(1) /\ ChargedAndListed(2)

\* No two stored users share an email, and no two share a phone.
UniqueEmailAndPhone ==
    \A a, b \in DOMAIN users :
        a # b => /\ users[a].email # users[b].email
                 /\ users[a].phone # users[b].phone

\* Request r is an answered register request that created no user while a
\* stored user holds its email or its phone.
DuplicateRegister(r) ==
    /\ Done(r, "register")
    /\ ValidRole(req[r].body.role)
    /\ req[r].status # 201
    /\ \E id \in DOMAIN users :
          \/ users[id].email = req[r].body.email
          \/ users[id].phone = req[r].body.phone

\* C19: no two users share an email or a phone, and a register request
\* whose email or phone belongs to a stored user creates no user and is
\* answered 400.
C19_DuplicateRegisterAnswered400 ==
    /\ UniqueEmailAndPhone
    /\ \A r \in Slots :
          DuplicateRegister(r) =>
              /\ req[r].status = 400
              /\ req[r].userId \notin DOMAIN users

\* C20: no asker holds a positive credit balance.
C20_AskerHoldsNoCredits ==
    \A id \in DOMAIN users :
        users[id].role = "asker" =>
            ~(users[id].credits.t = "number" /\ users[id].credits.v > 0)


(***************************************************************************)
(* What an unlock request writes, under SpecPair, where the steps of two   *)
(* requests interleave.                                                    *)
(***************************************************************************)
\* The step leaves every user but f as it is, and of f all but the credits.
OnlyCreditsOf(f) ==
    /\ DOMAIN users' = DOMAIN users
    /\ \A id \in DOMAIN users :
          /\ id # f => users'[id] = users[id]
          /\ [users'[id] EXCEPT !.credits = users[id].credits] = users[id]

\* The step leaves every need but n as it is, and of n all but unlockedBy.
OnlyUnlockedByOf(n) ==
    /\ DOMAIN needs' = DOMAIN needs
    /\ \A m \in DOMAIN needs :
          /\ m # n => needs'[m] = needs[m]
          /\ [needs'[m] EXCEPT !.unlockedBy = needs[m].unlockedBy] = needs[m]

\* C21: every step of an unlock request by fulfiller f on need n changes at
\* most f's credits, n's unlockedBy and the ledger; every other field of n,
\* every other need and every other user, the asker included, stay as they
\* are.
C21_UnlockWritesOnlyItsOwn ==
    [][\A r \in Slots :
          (req[r].kind = "unlock" /\ req'[r] # req[r]) =>
              /\ OnlyCreditsOf(req[r].userId)
              /\ OnlyUnlockedByOf(req[r].needId)]_vars

\* Both fulfillers have unlocked need 1; the asker and the rest of the need
\* are as they were.
C21_Witness ==
    /\ Done(1, "unlock") /\ req[1].status = 200
    /\ Done(2, "unlock") /\ req[2].status = 200
    /\ users[1] = Asker1
    /\ users[2] = Fulfiller2(Num(0))
    /\ 1 \in DOMAIN needs
    /\ Len(needs[1].unlockedBy) = 2
    /\ [needs[1] EXCEPT !.unlockedBy = <<>>] = Need1


(***************************************************************************)
(* The ledger and the unlock lists, under SpecSeq.                         *)
(***************************************************************************)
\* No unlock request is between its arrival and its answer.
NoUnlockInFlight ==
    \A r \in Slots : req[r].kind = "unlock" => req[r].pc = "done"

\* The sum of g[x] over the elements x of a set.
RECURSIVE SumOver(_, _)
SumOver(S, g) ==
    IF S = {} THEN 0
    ELSE LET x == CHOOSE y \in S : TRUE
         IN  g[x] + SumOver(S \ {x}, g)

\* C22: whenever no unlock request is in flight, for every fulfiller f and
\* stored need n the ledger holds as many completed unlock transactions of
\* f for n as f occurs in n.unlockedBy, and the unlocks the askers'
\* dashboards count (totalOffers) are as many as those the fulfillers'
\* dashboards count (unlockedNeeds).
C22_LedgerAgreesWithUnlockLists ==
    NoUnlockInFlight =>
        /\ \A f \in DOMAIN users, n \in DOMAIN needs :
              UnlocksInLedger(f, n) = Occurrences(f, needs[n].unlockedBy)
        /\ SumOver(DOMAIN users, [a \in DOMAIN users |-> TotalOffers(a)])
             = SumOver(DOMAIN users, [f \in DOMAIN users |-> UnlockedNeeds(f)])


(***************************************************************************)
(* An unlock of a need that does not exist, under SpecBackends.            *)
(***************************************************************************)
\* Request r is an answered unlock request, of either backend, for a need
\* that was not stored when it arrived; in the relational backend its
\* payment code verifies.
MissingNeedUnlock(r) ==
    /\ \/ Done(r, "unlock")
       \/ Done(r, "relUnlock") /\ PaymentVerified(req[r].mpesaCode)
    /\ req[r].needId \notin DOMAIN req[r].pre.needs

\* C23: in both backends an unlock request that names a need which does not
\* exist is answered 404 (500, where the store rejects a write) and appends
\* no transaction to the ledger.
C23_MissingNeedAppendsNothing ==
    \A r \in Slots :
        MissingNeedUnlock(r) =>
            /\ req[r].status \in {404, 500}
            /\ transactions = req[r].pre.transactions

=============================================================================
